---- MODULE Spec2Model ----
(***************************************************************************)
(* Model of the rotating log writer of package logrotate                   *)
(* (src/logrotate/rotate.go): the RotateWriter, its file handle, its size  *)
(* counter and time boundary, the file system it appends to, the wall      *)
(* clock it reads and the goroutines that call it under its mutex.         *)
(*                                                                         *)
(* Time is a tick counter.  A minute is TicksPerMinute ticks, an hour      *)
(* MinutesPerHour minutes, a day HoursPerDay hours.  File sizes are        *)
(* counted in bytes; data is appended in chunks of ChunkBytes bytes.       *)
(*                                                                         *)
(* A second specification, SpecRegistry, models the global logger registry *)
(* of package hlog (src/hlog/logger.go) and the construction of a channel  *)
(* monitor that reads it (src/unnamed/part_002).                           *)
(***************************************************************************)
EXTENDS Integers, Sequences, FiniteSets, TLC

\* ---------------------------------------------------------------- bounds
TicksPerMinute == 2
MinutesPerHour == 2
HoursPerDay == 2
MaxElapsed == 2
MaxSkew == 1
NumProcs == 2
MaxWrites == 2
RecLen == 2
ChunkBytes == 524288
MaxStops == 2
MaxWarns == 2
MaxRecords == 2
MaxElapsedUnits == 3

TicksPerHour == TicksPerMinute * MinutesPerHour
TicksPerDay == TicksPerHour * HoursPerDay
\* the run starts one tick before a midnight, which is also the top of an
\* hour and of a minute
StartTick == TicksPerDay - 1
MaxTime == StartTick + MaxElapsed

Procs == 1..NumProcs

\* ------------------------------------------------------- configuration
\* RotateConfig.TimeRotation values exercised; the empty string is what a
\* configuration without time rotation carries
TimeRotations == {"", "daily", "hourly", "minutely"}
\* RotateConfig.MaxSize values exercised (MB); 0 disables size rotation
MaxSizes == {0, 1}

\* NewRotateWriter: ext := filepath.Ext(Filename); prefix := TrimSuffix(..)
Filename == <<"app", ".log">>
fileExt == Filename[2]
filePrefix == Filename[1]

\* ------------------------------------------------------------ the clock
Day(t) == t \div TicksPerDay
Hour(t) == (t \div TicksPerHour) % HoursPerDay
Minute(t) == (t \div TicksPerMinute) % MinutesPerHour

\* time.Date(day, hour, minute, 0, 0): out-of-range fields are normalised
\* by carrying into the next larger field
Date(d, h, m) == d * TicksPerDay + h * TicksPerHour + m * TicksPerMinute

\* variant: the hourly layout lacks the hour field
FormatTime_HourlyNoHour(gran, t) ==
    CASE gran = "hourly" -> <<Day(t)>>
      [] gran = "minutely" -> <<Day(t), Hour(t), Minute(t)>>
      [] OTHER -> <<Day(t)>>

\* variant: the empty TimeRotation puts no time token in the name
FormatTime_NoneBare(gran, t) ==
    CASE gran = "hourly" -> <<Day(t), Hour(t)>>
      [] gran = "minutely" -> <<Day(t), Hour(t), Minute(t)>>
      [] gran = "" -> <<>>
      [] OTHER -> <<Day(t)>>

\* now.Format(layout): the token of the instant under one granularity
FormatTime(gran, t) ==
    CASE gran = "hourly" -> <<Day(t), Hour(t)>>
      [] gran = "minutely" -> <<Day(t), Hour(t), Minute(t)>>
      [] OTHER -> <<Day(t)>>

getCurrentFilePath(cfg, t) ==
    <<filePrefix, FormatTime(cfg.TimeRotation, t), fileExt>>

\* variant: the default branch computes the top of the next hour
getRotationTimeBoundary_DefaultHourly(cfg, t) ==
    CASE cfg.TimeRotation = "minutely" -> Date(Day(t), Hour(t), Minute(t) + 1)
      [] OTHER -> Date(Day(t), Hour(t) + 1, 0)

\* the instant up to which the file of instant t is current
getRotationTimeBoundary(cfg, t) ==
    CASE cfg.TimeRotation = "hourly" -> Date(Day(t), Hour(t) + 1, 0)
      [] cfg.TimeRotation = "minutely" -> Date(Day(t), Hour(t), Minute(t) + 1)
      [] OTHER -> Date(Day(t) + 1, 0, 0)

\* maxSizeBytes := rw.config.MaxSize * 1024 * 1024
maxSizeBytes(cfg) == cfg.MaxSize * 1024 * 1024

\* the successive time.Now() results of one call that starts at instant t
Min(a, b) == IF a < b THEN a ELSE b
ClockReads(t) ==
    {ts \in [1..4 -> t..Min(t + MaxSkew, MaxTime)] :
        /\ ts[1] = t
        /\ \A i \in 1..3 : ts[i] <= ts[i + 1]}

\* ------------------------------------------------------ files and handles
\* *os.File: the nil pointer, or a handle with its name and whether Close
\* has been called on it
NilFile == [nil |-> TRUE, name |-> <<>>, closed |-> FALSE]
Handle(path) == [nil |-> FALSE, name |-> path, closed |-> FALSE]
IsOpen(f) == ~f.nil /\ ~f.closed

\* on-disk length in bytes of a file's content
FileSize(content) == Len(content) * ChunkBytes

\* outcomes of os.MkdirAll / os.OpenFile inside openNewFile
OpenFails == {"none", "mkdir", "open"}

\* variant: the file is opened with O_TRUNC instead of O_APPEND
OpenFile_Trunc(disk, path) ==
    IF path \in DOMAIN disk THEN [disk EXCEPT ![path] = <<>>]
    ELSE disk @@ (path :> <<>>)

\* os.OpenFile(path, O_WRONLY|O_CREATE|O_APPEND): existing content is kept
OpenFile(disk, path) ==
    IF path \in DOMAIN disk THEN disk ELSE disk @@ (path :> <<>>)

\* the record a producer appends: RecLen chunks carrying its marker
Payload(p) == [i \in 1..RecLen |-> <<p, i>>]

\* variant: the previous file is not closed before the next is opened
closeCurrent_Leak(f, n) == [file |-> f, nOpen |-> n]

\* if rw.file != nil { rw.file.Close() }: the handle stays in rw.file,
\* closed; its descriptor is released
closeCurrent(f, n) ==
    IF f.nil THEN [file |-> f, nOpen |-> n]
    ELSE [file |-> [f EXCEPT !.closed = TRUE],
          nOpen |-> IF IsOpen(f) THEN n - 1 ELSE n]

\* variant: the path is computed from the writer's lastRotateTime instead of
\* the instant of the call
openNewFile_FromBoundary(cfg, w, e, t, fail, statOk) ==
    LET old == closeCurrent(w.file, e.nOpen)
        currentPath == getCurrentFilePath(cfg, w.lastRotateTime)
        disk1 == OpenFile(e.fs, currentPath)
    IN  IF fail # "none"
        THEN [w |-> [w EXCEPT !.file = old.file],
              e |-> [e EXCEPT !.nOpen = old.nOpen],
              err |-> fail]
        ELSE [w |-> [w EXCEPT !.file = Handle(currentPath),
                              !.currentSize =
                                  IF statOk THEN FileSize(disk1[currentPath])
                                  ELSE 0],
              e |-> [fs |-> disk1, nOpen |-> old.nOpen + 1],
              err |-> "nil"]

\* variant: when the computed path already exists, a path with a sequence
\* number appended is opened instead
openNewFile_Backup(cfg, w, e, t, fail, statOk) ==
    LET old == closeCurrent(w.file, e.nOpen)
        computed == getCurrentFilePath(cfg, t)
        currentPath == IF computed \in DOMAIN e.fs THEN computed \o <<1>>
                       ELSE computed
        disk1 == OpenFile(e.fs, currentPath)
    IN  IF fail # "none"
        THEN [w |-> [w EXCEPT !.file = old.file],
              e |-> [e EXCEPT !.nOpen = old.nOpen],
              err |-> fail]
        ELSE [w |-> [w EXCEPT !.file = Handle(currentPath),
                              !.currentSize =
                                  IF statOk THEN FileSize(disk1[currentPath])
                                  ELSE 0],
              e |-> [fs |-> disk1, nOpen |-> old.nOpen + 1],
              err |-> "nil"]

\* openNewFile on writer w = [file, currentSize, lastRotateTime] and
\* environment e = [fs, nOpen], with the clock read t
openNewFile(cfg, w, e, t, fail, statOk) ==
    LET old == closeCurrent(w.file, e.nOpen)
        closedOld == old.file
        nOpen1 == old.nOpen
        currentPath == getCurrentFilePath(cfg, t)
        disk1 == OpenFile(e.fs, currentPath)
    IN  IF fail # "none"
        THEN [w |-> [w EXCEPT !.file = closedOld],
              e |-> [e EXCEPT !.nOpen = nOpen1],
              err |-> fail]
        ELSE [w |-> [w EXCEPT !.file = Handle(currentPath),
                              !.currentSize =
                                  IF statOk THEN FileSize(disk1[currentPath])
                                  ELSE 0],
              e |-> [fs |-> disk1, nOpen |-> nOpen1 + 1],
              err |-> "nil"]

\* now.After(rw.lastRotateTime)
timePassed(now, boundary) == now > boundary

\* variant: the threshold must be exceeded, not merely reached
sizeReached_Strict(cfg, size) ==
    maxSizeBytes(cfg) > 0 /\ size > maxSizeBytes(cfg)

\* variant: the threshold is compared without testing that it is positive
sizeReached_NoGuard(cfg, size) == size >= maxSizeBytes(cfg)

\* maxSizeBytes > 0 && rw.currentSize >= maxSizeBytes
sizeReached(cfg, size) ==
    maxSizeBytes(cfg) > 0 /\ size >= maxSizeBytes(cfg)

\* checkRotate with the clock reads ts; the result also tells which branch
\* was taken (trigger), how many opens were attempted and the last clock
\* value read
checkRotate(cfg, w, e, ts, fail, statOk) ==
    IF timePassed(ts[1], w.lastRotateTime)
    THEN IF w.file.nil \/ w.file.name # getCurrentFilePath(cfg, ts[2])
         THEN LET r == openNewFile(cfg, w, e, ts[3], fail, statOk)
              IN  IF r.err # "nil"
                  THEN [w |-> r.w, e |-> r.e, err |-> r.err,
                        trigger |-> "time", opens |-> 1, until |-> ts[3]]
                  ELSE [w |-> [r.w EXCEPT !.lastRotateTime =
                                   getRotationTimeBoundary(cfg, ts[4])],
                        e |-> r.e, err |-> "nil",
                        trigger |-> "time", opens |-> 1, until |-> ts[4]]
         ELSE [w |-> w, e |-> e, err |-> "nil",
               trigger |-> "passed", opens |-> 0, until |-> ts[2]]
    ELSE IF sizeReached(cfg, w.currentSize)
         THEN LET r == openNewFile(cfg, w, e, ts[2], fail, statOk)
              IN  [w |-> r.w, e |-> r.e, err |-> r.err,
                   trigger |-> "size", opens |-> 1, until |-> ts[2]]
         ELSE [w |-> w, e |-> e, err |-> "nil",
               trigger |-> "none", opens |-> 0, until |-> ts[1]]

\* variant: an append that stops after k chunks is tried again with the
\* whole record, and the call reports success
FileWrite_Retry(f, disk, p, k) ==
    IF f.nil THEN [fs |-> disk, n |-> 0, err |-> "ErrInvalid"]
    ELSE IF f.closed THEN [fs |-> disk, n |-> 0, err |-> "ErrClosed"]
    ELSE [fs |-> [disk EXCEPT ![f.name] =
                     @ \o SubSeq(p, 1, k) \o (IF k < Len(p) THEN p ELSE <<>>)],
          n |-> Len(p) * ChunkBytes,
          err |-> "nil"]

\* rw.file.Write(p) committing the first k chunks of p: the nil handle and
\* a closed handle refuse, an open handle appends at the end of its file
FileWrite(f, disk, p, k) ==
    IF f.nil THEN [fs |-> disk, n |-> 0, err |-> "ErrInvalid"]
    ELSE IF f.closed THEN [fs |-> disk, n |-> 0, err |-> "ErrClosed"]
    ELSE [fs |-> [disk EXCEPT ![f.name] = @ \o SubSeq(p, 1, k)],
          n |-> k * ChunkBytes,
          err |-> IF k = Len(p) THEN "nil" ELSE "write"]

\* ----------------------------------------------------------------- state
VARIABLES
    clock,          \* the wall clock: the latest value time.Now() returned
    config,         \* RotateWriter.config
    rw,             \* "absent" before NewRotateWriter succeeds, then "live"
    file,           \* RotateWriter.file
    currentSize,    \* RotateWriter.currentSize
    lastRotateTime, \* RotateWriter.lastRotateTime
    mu,             \* RotateWriter.mu: 0 when free, else the holder
    pc,             \* per goroutine: "idle" or the method whose body it is in
    fs,             \* the log directory: path -> content
    nOpen,          \* number of open file descriptors the writer owns
    done,           \* per goroutine: Write calls that returned
    writeErr,       \* some Write returned an error
    last            \* the call that has just returned: the branch it took
                    \* and its results, and whether it is a Close that
                    \* directly follows a Close; cleared when time passes
                    \* or the next call begins

vars == <<clock, config, rw, file, currentSize, lastRotateTime, mu, pc, fs,
          nOpen, done, writeErr, last>>

W == [file |-> file, currentSize |-> currentSize,
      lastRotateTime |-> lastRotateTime]
E == [fs |-> fs, nOpen |-> nOpen]

NoCall == [op |-> "none", again |-> FALSE, trigger |-> "none", opens |-> 0,
           n |-> 0, err |-> "nil", path |-> <<>>]

\* ------------------------------------------------- the logger registry
\* (src/hlog/logger.go, src/unnamed/part_002)
\* registry keys and logger instances exercised
LoggerTypes == {"default", "db"}
Loggers == {"zapA", "zapB"}
\* the nil interface value, and the logger createDefaultLogger builds
NilLogger == "nil"
ConsoleLogger == "console"

VARIABLES
    GlobalLoggers,  \* hlog.GlobalLoggers: logger type -> logger
    loggersMutex,   \* hlog.loggersMutex: the writer holding it (0 when
                    \* none) and the set of readers holding it
    gpc,            \* per goroutine: "idle" or the registry code it is in
    garg,           \* per goroutine: the arguments of the call it is in
    hLog,           \* per goroutine: hLog of the monitor it is building
    got,            \* per goroutine: what its last GetLogger returned
    crashed         \* the runtime has thrown "concurrent map read and map
                    \* write"

regVars == <<GlobalLoggers, loggersMutex, gpc, garg, hLog, got, crashed>>

NoArg == [loggerType |-> "", logger |-> NilLogger]

\* var GlobalLoggers = make(map[string]HLogger); no goroutine is running
RegistryStart ==
    /\ GlobalLoggers = <<>>
    /\ loggersMutex = [w |-> 0, r |-> {}]
    /\ gpc = [g \in Procs |-> "idle"]
    /\ garg = [g \in Procs |-> NoArg]
    /\ hLog = [g \in Procs |-> NilLogger]
    /\ got = [g \in Procs |-> NilLogger]
    /\ crashed = FALSE

\* ------------------------------------------------- the channel monitor
\* (src/unnamed/part_002: MonitorChs, Run, Stop)
VARIABLES
    monitor,        \* the MonitorChs: whether it is built, whether chs holds
                    \* channels, whether hLog is set, and quitCh
    ticker,         \* the time.Ticker of Run: running or stopped, and the
                    \* number of ticks waiting in ticker.C
    mpc,            \* the goroutine of Run: "none", "select", "tick", "exited"
    cpc,            \* the goroutine that builds, runs and stops the monitor
    wg,             \* the sync.WaitGroup counter
    stops,          \* Stop calls made
    warns,          \* "ch len monitor" records logged, counted up to MaxWarns
    panicked        \* "" or the panic that ended the process

monVars == <<monitor, ticker, mpc, cpc, wg, stops, warns, panicked>>

\* a channel variable: nil, or an open or closed channel with buf elements
NilChan == [nil |-> TRUE, buf |-> 0, closed |-> FALSE]

\* no monitor has been built
MonitorStart ==
    /\ monitor = [built |-> FALSE, chs |-> FALSE, hLog |-> FALSE,
                  quitCh |-> NilChan]
    /\ ticker = [on |-> FALSE, c |-> 0]
    /\ mpc = "none"
    /\ cpc = "new"
    /\ wg = 0
    /\ stops = 0
    /\ warns = 0
    /\ panicked = ""

\* --------------------------------------------------- the GORM adapter
\* (src/hlog/gormlogger.go)
VARIABLES
    gLogger,        \* the gormLogger in use: its LogLevel, SlowThreshold,
                    \* IgnoreRecordNotFoundError and whether its encoder is
                    \* the console one; built is FALSE before NewGormLogger
    zapOut,         \* the records the underlying logger has received
    gLast           \* the adapter call that has just returned, with its
                    \* arguments and the records it emitted

gormVars == <<gLogger, zapOut, gLast>>

NoGormCall == [op |-> "none", err |-> "nil", elapsed |-> 0, emitted |-> <<>>]

\* no adapter has been built
GormStart ==
    /\ gLogger = [built |-> FALSE, LogLevel |-> 0, SlowThreshold |-> 0,
                  IgnoreRecordNotFoundError |-> FALSE, console |-> FALSE]
    /\ zapOut = <<>>
    /\ gLast = NoGormCall

\* ------------------------------------- the size threshold in int64
\* An int64 is held as its two's-complement bit pattern in four 16-bit
\* limbs, least significant first.
VARIABLES
    maxSize64,      \* RotateConfig.MaxSize of the writer under the size check
    currentSize64,  \* RotateWriter.currentSize of that writer
    sizeCheck       \* the size check that has just run: the maxSizeBytes it
                    \* computed and whether it reopens

sizeVars == <<maxSize64, currentSize64, sizeCheck>>

Base == 256 * 256
Zero64 == <<0, 0, 0, 0>>
NoSizeCheck == [state |-> "unset", maxSizeBytes |-> Zero64, reopen |-> FALSE]

\* no writer has been configured for the size check
SizeStart ==
    /\ maxSize64 = Zero64
    /\ currentSize64 = Zero64
    /\ sizeCheck = NoSizeCheck

Init ==
    /\ RegistryStart
    /\ MonitorStart
    /\ GormStart
    /\ SizeStart
    /\ clock = StartTick
    /\ config \in [TimeRotation : TimeRotations, MaxSize : MaxSizes]
    /\ rw = "absent"
    /\ file = NilFile
    /\ currentSize = 0
    /\ lastRotateTime = 0
    /\ mu = 0
    /\ pc = [p \in Procs |-> "idle"]
    /\ fs = <<>>
    /\ nOpen = 0
    /\ done = [p \in Procs |-> 0]
    /\ writeErr = FALSE
    /\ last = NoCall

\* time passes between calls; the reads of one call are its ClockReads
Tick ==
    /\ clock < MaxTime
    /\ clock' = clock + 1
    /\ last' = NoCall
    /\ UNCHANGED <<config, rw, file, currentSize, lastRotateTime, mu, pc, fs,
                   nOpen, done, writeErr>>
    /\ UNCHANGED <<regVars, monVars, gormVars, sizeVars>>

\* variant: a failed open still returns a writer, which holds no file and
\* would open one on first use
NewRotateWriter_Lazy ==
    /\ rw = "absent"
    /\ \E ts \in ClockReads(clock), fail \in OpenFails, statOk \in BOOLEAN :
        LET r == openNewFile(config, W, E, ts[1], fail, statOk)
        IN  /\ clock' = ts[2]
            /\ rw' = "live"
            /\ file' = r.w.file
            /\ currentSize' = r.w.currentSize
            /\ lastRotateTime' = getRotationTimeBoundary(config, ts[2])
            /\ fs' = r.e.fs
            /\ nOpen' = r.e.nOpen
            /\ last' = [NoCall EXCEPT !.op = "NewRotateWriter",
                           !.trigger = "new",
                           !.opens = 1, !.err = r.err]
    /\ UNCHANGED <<config, mu, pc, done, writeErr>>
    /\ UNCHANGED <<regVars, monVars, gormVars, sizeVars>>

\* NewRotateWriter(config): on failure no writer is returned
NewRotateWriter ==
    /\ rw = "absent"
    /\ \E ts \in ClockReads(clock), fail \in OpenFails, statOk \in BOOLEAN :
        LET r == openNewFile(config, W, E, ts[1], fail, statOk)
        IN  IF r.err # "nil"
            THEN /\ clock' = ts[1]
                 /\ last' = [NoCall EXCEPT !.op = "NewRotateWriter",
                                !.trigger = "new",
                                !.opens = 1, !.err = r.err]
                 /\ UNCHANGED <<rw, file, currentSize, lastRotateTime, fs,
                                nOpen>>
            ELSE /\ clock' = ts[2]
                 /\ rw' = "live"
                 /\ file' = r.w.file
                 /\ currentSize' = r.w.currentSize
                 /\ lastRotateTime' = getRotationTimeBoundary(config, ts[2])
                 /\ fs' = r.e.fs
                 /\ nOpen' = r.e.nOpen
                 /\ last' = [NoCall EXCEPT !.op = "NewRotateWriter",
                                !.trigger = "new",
                                !.opens = 1]
    /\ UNCHANGED <<config, mu, pc, done, writeErr>>
    /\ UNCHANGED <<regVars, monVars, gormVars, sizeVars>>

\* Write calls issued so far by all goroutines together
RECURSIVE SumTo(_, _)
SumTo(f, n) == IF n = 0 THEN 0 ELSE f[n] + SumTo(f, n - 1)
Calls(d) == SumTo(d, NumProcs)

\* variant: the method body is entered without waiting for the mutex
Lock_NoWait(p, op) ==
    /\ rw = "live"
    /\ pc[p] = "idle"
    /\ op = "Write" => Calls(done) < MaxWrites
    /\ mu' = p
    /\ pc' = [pc EXCEPT ![p] = op]
    /\ last' = [NoCall EXCEPT !.again = (op = "Close" /\ last.op = "Close")]
    /\ UNCHANGED <<clock, config, rw, file, currentSize, lastRotateTime, fs,
                   nOpen, done, writeErr>>
    /\ UNCHANGED <<regVars, monVars, gormVars, sizeVars>>

\* rw.mu.Lock() at the head of a method; the run issues at most MaxWrites
\* Write calls
Lock(p, op) ==
    /\ rw = "live"
    /\ pc[p] = "idle"
    /\ mu = 0
    /\ op = "Write" => Calls(done) < MaxWrites
    /\ mu' = p
    /\ pc' = [pc EXCEPT ![p] = op]
    /\ last' = [NoCall EXCEPT !.again = (op = "Close" /\ last.op = "Close")]
    /\ UNCHANGED <<clock, config, rw, file, currentSize, lastRotateTime, fs,
                   nOpen, done, writeErr>>
    /\ UNCHANGED <<regVars, monVars, gormVars, sizeVars>>

\* the deferred rw.mu.Unlock()
Unlock(p) ==
    /\ mu' = 0
    /\ pc' = [pc EXCEPT ![p] = "idle"]
    /\ UNCHANGED <<regVars, monVars, gormVars, sizeVars>>

\* Write(p []byte): the body under the lock
Write(p) ==
    /\ pc[p] = "Write"
    /\ \E ts \in ClockReads(clock), fail \in OpenFails, statOk \in BOOLEAN,
          k \in 0..RecLen :
        LET r == checkRotate(config, W, E, ts, fail, statOk)
            fw == FileWrite(r.w.file, r.e.fs, Payload(p), k)
            call == [NoCall EXCEPT !.op = "Write",
                                   !.again = last.again,
                                   !.trigger = r.trigger, !.opens = r.opens]
        IN  /\ clock' = r.until
            /\ file' = r.w.file
            /\ lastRotateTime' = r.w.lastRotateTime
            /\ nOpen' = r.e.nOpen
            /\ IF r.err # "nil"
               THEN /\ currentSize' = r.w.currentSize
                    /\ fs' = r.e.fs
                    /\ writeErr' = TRUE
                    /\ last' = [call EXCEPT !.err = r.err]
               ELSE /\ currentSize' = IF fw.err = "nil"
                                      THEN r.w.currentSize + fw.n
                                      ELSE r.w.currentSize
                    /\ fs' = fw.fs
                    /\ writeErr' = (writeErr \/ fw.err # "nil")
                    /\ last' = [call EXCEPT !.n = fw.n, !.err = fw.err]
    /\ done' = [done EXCEPT ![p] = @ + 1]
    /\ Unlock(p)
    /\ UNCHANGED <<config, rw>>

\* rw.file.Sync() / rw.file.Close() on a non-nil handle: a handle already
\* closed refuses, an open one may report an I/O error
FileSync(f, ioErr) ==
    IF f.closed THEN "ErrClosed" ELSE IF ioErr THEN "sync" ELSE "nil"
FileClose(f, ioErr) ==
    IF f.closed THEN "ErrClosed" ELSE IF ioErr THEN "close" ELSE "nil"

\* Sync(): the body under the lock
Sync(p) ==
    /\ pc[p] = "Sync"
    /\ \E ioErr \in BOOLEAN :
        last' = [NoCall EXCEPT !.op = "Sync", !.again = last.again,
                    !.err = IF file.nil THEN "nil" ELSE FileSync(file, ioErr)]
    /\ Unlock(p)
    /\ UNCHANGED <<clock, config, rw, file, currentSize, lastRotateTime, fs,
                   nOpen, done, writeErr>>

\* variant: Close returns early when the file's Close fails, before clearing
\* rw.file
Close_ErrEarly(p) ==
    /\ pc[p] = "Close"
    /\ \E ioErr \in BOOLEAN :
        IF ~file.nil
        THEN /\ nOpen' = IF IsOpen(file) THEN nOpen - 1 ELSE nOpen
             /\ file' = IF FileClose(file, ioErr) = "nil" THEN NilFile
                         ELSE [file EXCEPT !.closed = TRUE]
             /\ last' = [NoCall EXCEPT !.op = "Close", !.again = last.again,
                            !.err = FileClose(file, ioErr)]
        ELSE /\ last' = [NoCall EXCEPT !.op = "Close", !.again = last.again]
             /\ UNCHANGED <<file, nOpen>>
    /\ Unlock(p)
    /\ UNCHANGED <<clock, config, rw, currentSize, lastRotateTime, fs, done,
                   writeErr>>

\* variant: Close releases the file but leaves the handle in rw.file
Close_KeepHandle(p) ==
    /\ pc[p] = "Close"
    /\ \E ioErr \in BOOLEAN :
        IF ~file.nil
        THEN /\ nOpen' = IF IsOpen(file) THEN nOpen - 1 ELSE nOpen
             /\ file' = [file EXCEPT !.closed = TRUE]
             /\ last' = [NoCall EXCEPT !.op = "Close", !.again = last.again,
                            !.err = FileClose(file, ioErr)]
        ELSE /\ last' = [NoCall EXCEPT !.op = "Close", !.again = last.again]
             /\ UNCHANGED <<file, nOpen>>
    /\ Unlock(p)
    /\ UNCHANGED <<clock, config, rw, currentSize, lastRotateTime, fs, done,
                   writeErr>>

\* Close(): the body under the lock
Close(p) ==
    /\ pc[p] = "Close"
    /\ \E ioErr \in BOOLEAN :
        IF ~file.nil
        THEN /\ nOpen' = IF IsOpen(file) THEN nOpen - 1 ELSE nOpen
             /\ file' = NilFile
             /\ last' = [NoCall EXCEPT !.op = "Close", !.again = last.again,
                            !.err = FileClose(file, ioErr)]
        ELSE /\ last' = [NoCall EXCEPT !.op = "Close", !.again = last.again]
             /\ UNCHANGED <<file, nOpen>>
    /\ Unlock(p)
    /\ UNCHANGED <<clock, config, rw, currentSize, lastRotateTime, fs, done,
                   writeErr>>

\* Rotate(): the body under the lock
Rotate(p) ==
    /\ pc[p] = "Rotate"
    /\ \E fail \in OpenFails, statOk \in BOOLEAN :
        LET r == openNewFile(config, W, E, clock, fail, statOk)
        IN  /\ file' = r.w.file
            /\ currentSize' = r.w.currentSize
            /\ fs' = r.e.fs
            /\ nOpen' = r.e.nOpen
            /\ last' = [NoCall EXCEPT !.op = "Rotate", !.again = last.again,
                           !.trigger = "force", !.opens = 1, !.err = r.err]
    /\ Unlock(p)
    /\ UNCHANGED <<clock, config, rw, lastRotateTime, done, writeErr>>

\* GetLogFilePath(): the body under the lock
GetLogFilePath(p) ==
    /\ pc[p] = "GetLogFilePath"
    /\ last' = [NoCall EXCEPT !.op = "GetLogFilePath", !.again = last.again,
                   !.path = IF ~file.nil THEN file.name ELSE <<>>]
    /\ Unlock(p)
    /\ UNCHANGED <<clock, config, rw, file, currentSize, lastRotateTime, fs,
                   nOpen, done, writeErr>>

Next ==
    \/ Tick
    \/ NewRotateWriter
    \/ \E p \in Procs : Lock(p, "Write")
    \/ \E p \in Procs : Lock(p, "Sync")
    \/ \E p \in Procs : Lock(p, "Close")
    \/ \E p \in Procs : Lock(p, "Rotate")
    \/ \E p \in Procs : Lock(p, "GetLogFilePath")
    \/ \E p \in Procs : Write(p)
    \/ \E p \in Procs : Sync(p)
    \/ \E p \in Procs : Close(p)
    \/ \E p \in Procs : Rotate(p)
    \/ \E p \in Procs : GetLogFilePath(p)

Spec == Init /\ [][Next]_vars

\* ------------------------------------------------- registry operations
\* value of GlobalLoggers[loggerType]; a missing key reads as nil
MapRead(m, loggerType) ==
    IF loggerType \in DOMAIN m THEN m[loggerType] ELSE NilLogger

\* GlobalLoggers[loggerType] = logger
MapWrite(m, loggerType, logger) ==
    [k \in DOMAIN m \cup {loggerType} |->
        IF k = loggerType THEN logger ELSE m[k]]

\* what a read of GlobalLoggers[loggerType] made by g without the mutex can
\* do: with no writer inside SetLogger it reads the stored value; racing
\* with the assignment of a writer it reads the old value or the value
\* being stored, or the runtime detects the race and throws
UnguardedRead(g, loggerType) ==
    LET writers == {h \in Procs \ {g} : gpc[h] = "SetLogger"}
    IN  IF writers = {} THEN {MapRead(GlobalLoggers, loggerType)}
        ELSE {MapRead(GlobalLoggers, loggerType), "fatal"}
             \cup {garg[h].logger : h \in
                      {w \in writers : garg[w].loggerType = loggerType}}

\* SetLogger: loggersMutex.Lock()
SetLoggerLock(g, loggerType, logger) ==
    /\ ~crashed
    /\ gpc[g] = "idle"
    /\ loggersMutex.w = 0
    /\ loggersMutex.r = {}
    /\ loggersMutex' = [loggersMutex EXCEPT !.w = g]
    /\ gpc' = [gpc EXCEPT ![g] = "SetLogger"]
    /\ garg' = [garg EXCEPT ![g] =
                    [loggerType |-> loggerType, logger |-> logger]]
    /\ UNCHANGED <<GlobalLoggers, hLog, got, crashed>>
    /\ UNCHANGED <<vars, monVars, gormVars, sizeVars>>

\* InitLogger / InitRotatingLogger(loggerType, config): the logger is built
\* first; logger is nil when NewZapLogger / NewRotatingLogger fails
InitLoggerCall(g, loggerType, logger) ==
    /\ ~crashed
    /\ gpc[g] = "idle"
    /\ gpc' = [gpc EXCEPT ![g] = "InitLogger"]
    /\ garg' = [garg EXCEPT ![g] =
                    [loggerType |-> loggerType, logger |-> logger]]
    /\ UNCHANGED <<GlobalLoggers, loggersMutex, hLog, got, crashed>>
    /\ UNCHANGED <<vars, monVars, gormVars, sizeVars>>

\* InitLogger / InitRotatingLogger: if err == nil { SetLogger(...) }, which
\* begins with loggersMutex.Lock(); otherwise the call returns
InitLogger(g) ==
    /\ ~crashed
    /\ gpc[g] = "InitLogger"
    /\ IF garg[g].logger = NilLogger
       THEN /\ gpc' = [gpc EXCEPT ![g] = "idle"]
            /\ garg' = [garg EXCEPT ![g] = NoArg]
            /\ UNCHANGED loggersMutex
       ELSE /\ loggersMutex.w = 0
            /\ loggersMutex.r = {}
            /\ loggersMutex' = [loggersMutex EXCEPT !.w = g]
            /\ gpc' = [gpc EXCEPT ![g] = "SetLogger"]
            /\ UNCHANGED garg
    /\ UNCHANGED <<GlobalLoggers, hLog, got, crashed>>
    /\ UNCHANGED <<vars, monVars, gormVars, sizeVars>>

\* variant: a name already registered keeps its first logger
SetLogger_KeepFirst(g) ==
    /\ ~crashed
    /\ gpc[g] = "SetLogger"
    /\ GlobalLoggers' =
           IF garg[g].loggerType \in DOMAIN GlobalLoggers THEN GlobalLoggers
           ELSE MapWrite(GlobalLoggers, garg[g].loggerType, garg[g].logger)
    /\ loggersMutex' = [loggersMutex EXCEPT !.w = 0]
    /\ gpc' = [gpc EXCEPT ![g] = "idle"]
    /\ garg' = [garg EXCEPT ![g] = NoArg]
    /\ UNCHANGED <<hLog, got, crashed>>
    /\ UNCHANGED <<vars, monVars, gormVars, sizeVars>>

\* SetLogger: the assignment and the deferred Unlock
SetLogger(g) ==
    /\ ~crashed
    /\ gpc[g] = "SetLogger"
    /\ GlobalLoggers' =
           MapWrite(GlobalLoggers, garg[g].loggerType, garg[g].logger)
    /\ loggersMutex' = [loggersMutex EXCEPT !.w = 0]
    /\ gpc' = [gpc EXCEPT ![g] = "idle"]
    /\ garg' = [garg EXCEPT ![g] = NoArg]
    /\ UNCHANGED <<hLog, got, crashed>>
    /\ UNCHANGED <<vars, monVars, gormVars, sizeVars>>

\* GetLogger: loggersMutex.RLock()
GetLoggerRLock(g, loggerType) ==
    /\ ~crashed
    /\ gpc[g] = "idle"
    /\ loggersMutex.w = 0
    /\ loggersMutex' = [loggersMutex EXCEPT !.r = @ \cup {g}]
    /\ gpc' = [gpc EXCEPT ![g] = "GetLogger"]
    /\ garg' = [garg EXCEPT ![g] =
                    [loggerType |-> loggerType, logger |-> NilLogger]]
    /\ got' = [got EXCEPT ![g] = NilLogger]
    /\ UNCHANGED <<GlobalLoggers, hLog, crashed>>
    /\ UNCHANGED <<vars, monVars, gormVars, sizeVars>>

\* GetLogger: the lookup, the default for a missing key, the deferred
\* RUnlock
GetLogger(g) ==
    /\ ~crashed
    /\ gpc[g] = "GetLogger"
    /\ got' = [got EXCEPT ![g] =
                   IF garg[g].loggerType \in DOMAIN GlobalLoggers
                   THEN GlobalLoggers[garg[g].loggerType]
                   ELSE ConsoleLogger]
    /\ loggersMutex' = [loggersMutex EXCEPT !.r = @ \ {g}]
    /\ gpc' = [gpc EXCEPT ![g] = "idle"]
    /\ garg' = [garg EXCEPT ![g] = NoArg]
    /\ UNCHANGED <<GlobalLoggers, hLog, crashed>>
    /\ UNCHANGED <<vars, monVars, gormVars, sizeVars>>

\* the options a monitor is built with: none, WithLog(logger), WithHLog()
MonitorOptions ==
    {[option |-> "none", logger |-> NilLogger],
     [option |-> "WithHLog", logger |-> NilLogger]}
    \cup {[option |-> "WithLog", logger |-> l] : l \in Loggers \cup {NilLogger}}

\* NewMonitorChs(options...): the struct is allocated; next comes the
\* option, if any, then the defaults
NewMonitorChs(g, opt) ==
    /\ ~crashed
    /\ gpc[g] = "idle"
    /\ hLog' = [hLog EXCEPT ![g] = NilLogger]
    /\ gpc' = [gpc EXCEPT ![g] =
                   IF opt.option = "none" THEN "defaults" ELSE opt.option]
    /\ garg' = [garg EXCEPT ![g] =
                    [loggerType |-> "default", logger |-> opt.logger]]
    /\ UNCHANGED <<GlobalLoggers, loggersMutex, got, crashed>>
    /\ UNCHANGED <<vars, monVars, gormVars, sizeVars>>

\* the option WithLog(hLog): m.hLog = hLog
WithLog(g) ==
    /\ ~crashed
    /\ gpc[g] = "WithLog"
    /\ hLog' = [hLog EXCEPT ![g] = garg[g].logger]
    /\ gpc' = [gpc EXCEPT ![g] = "defaults"]
    /\ UNCHANGED <<GlobalLoggers, loggersMutex, garg, got, crashed>>
    /\ UNCHANGED <<vars, monVars, gormVars, sizeVars>>

\* one unguarded read of GlobalLoggers["default"] into m.hLog by g, after
\* which g is at position next
ReadDefaultInto(g, next) ==
    \E v \in UnguardedRead(g, "default") :
        IF v = "fatal"
        THEN /\ crashed' = TRUE
             /\ UNCHANGED <<hLog, gpc, garg>>
        ELSE /\ hLog' = [hLog EXCEPT ![g] = v]
             /\ gpc' = [gpc EXCEPT ![g] = next]
             /\ garg' = [garg EXCEPT ![g] =
                             IF next = "idle" THEN NoArg ELSE @]
             /\ UNCHANGED crashed

\* the option WithHLog(): m.hLog = hlog.GlobalLoggers["default"]
WithHLog(g) ==
    /\ ~crashed
    /\ gpc[g] = "WithHLog"
    /\ ReadDefaultInto(g, "defaults")
    /\ UNCHANGED <<GlobalLoggers, loggersMutex, got>>
    /\ UNCHANGED <<vars, monVars, gormVars, sizeVars>>

\* NewMonitorChs after the options: if m.hLog == nil it is read from
\* GlobalLoggers["default"]
MonitorDefaults(g) ==
    /\ ~crashed
    /\ gpc[g] = "defaults"
    /\ IF hLog[g] = NilLogger
       THEN ReadDefaultInto(g, "idle")
       ELSE /\ gpc' = [gpc EXCEPT ![g] = "idle"]
            /\ garg' = [garg EXCEPT ![g] = NoArg]
            /\ UNCHANGED <<hLog, crashed>>
    /\ UNCHANGED <<GlobalLoggers, loggersMutex, got>>
    /\ UNCHANGED <<vars, monVars, gormVars, sizeVars>>

NextRegistry ==
    \/ \E g \in Procs, k \in LoggerTypes, l \in Loggers :
           SetLoggerLock(g, k, l)
    \/ \E g \in Procs, k \in LoggerTypes, l \in Loggers \cup {NilLogger} :
           InitLoggerCall(g, k, l)
    \/ \E g \in Procs : InitLogger(g)
    \/ \E g \in Procs : SetLogger(g)
    \/ \E g \in Procs, k \in LoggerTypes : GetLoggerRLock(g, k)
    \/ \E g \in Procs : GetLogger(g)
    \/ \E g \in Procs, opt \in MonitorOptions : NewMonitorChs(g, opt)
    \/ \E g \in Procs : WithLog(g)
    \/ \E g \in Procs : WithHLog(g)
    \/ \E g \in Procs : MonitorDefaults(g)

InitRegistry ==
    /\ Init
    /\ config = [TimeRotation |-> "daily", MaxSize |-> 0]

SpecRegistry == InitRegistry /\ [][NextRegistry]_regVars

\* ---------------------------------------------------- monitor operations
\* m.quitCh = make(chan struct{}, 1)
QuitCap == 1

\* the caller has built the monitor with NewMonitorChs(options...): chs
\* holds channels or is the empty map, hLog is a logger or nil
MonitorBuilt(chs, log) ==
    /\ panicked = ""
    /\ cpc = "new"
    /\ monitor' = [built |-> TRUE, chs |-> chs, hLog |-> log,
                   quitCh |-> NilChan]
    /\ cpc' = "built"
    /\ UNCHANGED <<ticker, mpc, wg, stops, warns, panicked>>
    /\ UNCHANGED <<vars, regVars, gormVars, sizeVars>>

\* wg.Add(1) by the caller
WgAdd ==
    /\ panicked = ""
    /\ cpc = "built"
    /\ wg' = wg + 1
    /\ cpc' = "added"
    /\ UNCHANGED <<monitor, ticker, mpc, stops, warns, panicked>>
    /\ UNCHANGED <<vars, regVars, gormVars, sizeVars>>

\* Run(wg): the channel and the ticker are made, the goroutine starts at
\* its select
Run ==
    /\ panicked = ""
    /\ cpc = "added"
    /\ monitor' = [monitor EXCEPT !.quitCh =
                       [nil |-> FALSE, buf |-> 0, closed |-> FALSE]]
    /\ ticker' = [on |-> TRUE, c |-> 0]
    /\ mpc' = "select"
    /\ cpc' = "running"
    /\ UNCHANGED <<wg, stops, warns, panicked>>
    /\ UNCHANGED <<vars, regVars, gormVars, sizeVars>>

\* the period elapses: a running ticker puts a tick in ticker.C, which
\* holds one
TickerFires ==
    /\ panicked = ""
    /\ ticker.on
    /\ ticker.c = 0
    /\ ticker' = [ticker EXCEPT !.c = 1]
    /\ UNCHANGED <<monitor, mpc, cpc, wg, stops, warns, panicked>>
    /\ UNCHANGED <<vars, regVars, gormVars, sizeVars>>

\* select: case <-ticker.C
RecvTick ==
    /\ panicked = ""
    /\ mpc = "select"
    /\ ticker.c > 0
    /\ ticker' = [ticker EXCEPT !.c = 0]
    /\ mpc' = "tick"
    /\ UNCHANGED <<monitor, cpc, wg, stops, warns, panicked>>
    /\ UNCHANGED <<vars, regVars, gormVars, sizeVars>>

\* the body of the tick case: nothing to report continues; otherwise the
\* channel lengths are logged when hLog is set; then back to the select
HandleTick ==
    /\ panicked = ""
    /\ mpc = "tick"
    /\ warns' = IF monitor.chs /\ monitor.hLog
                THEN Min(warns + 1, MaxWarns) ELSE warns
    /\ mpc' = "select"
    /\ UNCHANGED <<monitor, ticker, cpc, wg, stops, panicked>>
    /\ UNCHANGED <<vars, regVars, gormVars, sizeVars>>

\* wg.Done(): a counter already at zero panics
WgDone(n) ==
    IF n = 0 THEN [wg |-> n, panicked |-> "sync: negative WaitGroup counter"]
    ELSE [wg |-> n - 1, panicked |-> ""]

\* variant: the goroutine returns without the deferred wg.Done()
RecvQuit_NoDone ==
    /\ panicked = ""
    /\ mpc = "select"
    /\ monitor.quitCh.buf > 0 \/ monitor.quitCh.closed
    /\ monitor' = [monitor EXCEPT !.quitCh.buf = IF @ > 0 THEN @ - 1 ELSE 0]
    /\ ticker' = [ticker EXCEPT !.on = FALSE]
    /\ mpc' = "exited"
    /\ UNCHANGED <<cpc, wg, stops, warns, panicked>>
    /\ UNCHANGED <<vars, regVars, gormVars, sizeVars>>

\* select: case <-m.quitCh, ready when the channel holds a value or is
\* closed: ticker.Stop(), return, and the deferred wg.Done()
RecvQuit ==
    /\ panicked = ""
    /\ mpc = "select"
    /\ monitor.quitCh.buf > 0 \/ monitor.quitCh.closed
    /\ monitor' = [monitor EXCEPT !.quitCh.buf = IF @ > 0 THEN @ - 1 ELSE 0]
    /\ ticker' = [ticker EXCEPT !.on = FALSE]
    /\ mpc' = "exited"
    /\ wg' = WgDone(wg).wg
    /\ panicked' = WgDone(wg).panicked
    /\ UNCHANGED <<cpc, stops, warns>>
    /\ UNCHANGED <<vars, regVars, gormVars, sizeVars>>

\* Stop(): the once is local to the call, so its function always runs; with
\* quitCh nil the call returns at once
Stop ==
    /\ panicked = ""
    /\ cpc \in {"built", "added", "running"}
    /\ stops < MaxStops
    /\ stops' = stops + 1
    /\ cpc' = IF monitor.quitCh.nil THEN cpc ELSE "sending"
    /\ UNCHANGED <<monitor, ticker, mpc, wg, warns, panicked>>
    /\ UNCHANGED <<vars, regVars, gormVars, sizeVars>>

\* Stop: m.quitCh <- struct{}{}; a closed channel panics, a full one blocks
StopSend ==
    /\ panicked = ""
    /\ cpc = "sending"
    /\ IF monitor.quitCh.closed
       THEN /\ panicked' = "send on closed channel"
            /\ UNCHANGED <<monitor, cpc>>
       ELSE /\ monitor.quitCh.buf < QuitCap
            /\ monitor' = [monitor EXCEPT !.quitCh.buf = @ + 1]
            /\ cpc' = "closing"
            /\ UNCHANGED panicked
    /\ UNCHANGED <<ticker, mpc, wg, stops, warns>>
    /\ UNCHANGED <<vars, regVars, gormVars, sizeVars>>

\* Stop: close(m.quitCh); then Stop returns
StopClose ==
    /\ panicked = ""
    /\ cpc = "closing"
    /\ IF monitor.quitCh.closed
       THEN /\ panicked' = "close of closed channel"
            /\ UNCHANGED <<monitor, cpc>>
       ELSE /\ monitor' = [monitor EXCEPT !.quitCh.closed = TRUE]
            /\ cpc' = "running"
            /\ UNCHANGED panicked
    /\ UNCHANGED <<ticker, mpc, wg, stops, warns>>
    /\ UNCHANGED <<vars, regVars, gormVars, sizeVars>>

\* wg.Wait() is called
Wait ==
    /\ panicked = ""
    /\ cpc = "running"
    /\ cpc' = "waiting"
    /\ UNCHANGED <<monitor, ticker, mpc, wg, stops, warns, panicked>>
    /\ UNCHANGED <<vars, regVars, gormVars, sizeVars>>

\* wg.Wait() returns once the counter is zero
WaitReturns ==
    /\ panicked = ""
    /\ cpc = "waiting"
    /\ wg = 0
    /\ cpc' = "returned"
    /\ UNCHANGED <<monitor, ticker, mpc, wg, stops, warns, panicked>>
    /\ UNCHANGED <<vars, regVars, gormVars, sizeVars>>

NextMonitor ==
    \/ \E chs \in BOOLEAN, log \in BOOLEAN : MonitorBuilt(chs, log)
    \/ WgAdd
    \/ Run
    \/ TickerFires
    \/ RecvTick
    \/ HandleTick
    \/ RecvQuit
    \/ Stop
    \/ StopSend
    \/ StopClose
    \/ Wait
    \/ WaitReturns

InitMonitor ==
    /\ Init
    /\ config = [TimeRotation |-> "daily", MaxSize |-> 0]

SpecMonitor == InitMonitor /\ [][NextMonitor]_monVars

\* the goroutine of Run is scheduled, a select with several ready cases
\* picks each of them sooner or later, and a Wait whose counter is zero
\* returns
SpecMonitorLive ==
    /\ SpecMonitor
    /\ WF_monVars(RecvTick)
    /\ WF_monVars(HandleTick)
    /\ SF_monVars(RecvQuit)
    /\ WF_monVars(WaitReturns)

\* ------------------------------------------------ GORM adapter operations
\* gorm.io/gorm/logger: Silent LogLevel = iota + 1, Error, Warn, Info
LevelSilent == 1
LevelError == 2
LevelWarn == 3
LevelInfo == 4
LogLevels == {LevelSilent, LevelError, LevelWarn, LevelInfo}

\* durations in units of 100 ms: the SlowThreshold values exercised, and the
\* 200 ms NewGormLogger takes when it is given no config
SlowThresholds == {1, 2}
DefaultSlowThreshold == 2

\* the err argument of Trace: nil, some SQL error, gorm.ErrRecordNotFound
TraceErrs == {"nil", "sql", "ErrRecordNotFound"}

\* errors.Is(err, gorm.ErrRecordNotFound)
IsRecordNotFound(err) == err = "ErrRecordNotFound"

\* the *logger.Config values NewGormLogger is given; nil is TRUE for the
\* nil pointer
GormConfigs ==
    [nil : {FALSE}, LogLevel : LogLevels, SlowThreshold : SlowThresholds,
     IgnoreRecordNotFoundError : BOOLEAN]
    \cup {[nil |-> TRUE, LogLevel |-> LevelSilent, SlowThreshold |-> 0,
           IgnoreRecordNotFoundError |-> FALSE]}

\* the record a call to g.Logger.Error / Warn / Info hands over: a formatted
\* string under the console encoder, a message with fields otherwise
Record(level, msg, g) ==
    [level |-> level, msg |-> msg,
     form |-> IF g.console THEN "string" ELSE "fields"]

\* NewGormLogger(hlogger, config); console tells whether the wrapped zap
\* logger was configured with the console encoder
NewGormLogger(cfg, console) ==
    /\ ~gLogger.built
    /\ gLogger' =
           IF cfg.nil
           THEN [built |-> TRUE, LogLevel |-> LevelWarn,
                 SlowThreshold |-> DefaultSlowThreshold,
                 IgnoreRecordNotFoundError |-> FALSE, console |-> console]
           ELSE [built |-> TRUE, LogLevel |-> cfg.LogLevel,
                 SlowThreshold |-> cfg.SlowThreshold,
                 IgnoreRecordNotFoundError |-> cfg.IgnoreRecordNotFoundError,
                 console |-> console]
    /\ gLast' = NoGormCall
    /\ UNCHANGED zapOut
    /\ UNCHANGED <<vars, regVars, monVars, sizeVars>>

\* LogMode(level): the copy with the new level is the logger used from now
LogMode(level) ==
    /\ gLogger.built
    /\ gLogger.LogLevel # level
    /\ gLogger' = [gLogger EXCEPT !.LogLevel = level]
    /\ gLast' = [NoGormCall EXCEPT !.op = "LogMode"]
    /\ UNCHANGED zapOut
    /\ UNCHANGED <<vars, regVars, monVars, sizeVars>>

\* Info / Warn / Error(ctx, msg, data...): handed to the underlying logger
\* when LogLevel is at least the method's level
Leveled(method, level) ==
    /\ gLogger.built
    /\ Len(zapOut) < MaxRecords
    /\ LET emitted == IF gLogger.LogLevel >= level
                       THEN <<[level |-> method, msg |-> "msg",
                               form |-> "string"]>>
                       ELSE <<>>
       IN  /\ zapOut' = zapOut \o emitted
           /\ gLast' = [NoGormCall EXCEPT !.op = method,
                                          !.emitted = emitted]
    /\ UNCHANGED gLogger
    /\ UNCHANGED <<vars, regVars, monVars, sizeVars>>

\* what Trace hands to the underlying logger for err and elapsed: the first
\* matching case of its switch, nothing below Info
TraceEmits(g, err, elapsed) ==
    IF g.LogLevel < LevelInfo THEN <<>>
    ELSE IF /\ err # "nil"
            /\ g.LogLevel >= LevelError
            /\ (~g.IgnoreRecordNotFoundError \/ ~IsRecordNotFound(err))
         THEN <<Record("error", "SQL Error", g)>>
         ELSE IF elapsed > g.SlowThreshold /\ g.LogLevel >= LevelWarn
              THEN <<Record("warn", "SLOW SQL", g)>>
              ELSE IF g.LogLevel = LevelInfo
                   THEN <<Record("info", "SQL", g)>>
                   ELSE <<>>

\* Trace(ctx, begin, fc, err) with time.Since(begin) = elapsed
Trace(err, elapsed) ==
    /\ gLogger.built
    /\ Len(zapOut) < MaxRecords
    /\ LET emitted == TraceEmits(gLogger, err, elapsed)
       IN  /\ zapOut' = zapOut \o emitted
           /\ gLast' = [op |-> "Trace", err |-> err, elapsed |-> elapsed,
                        emitted |-> emitted]
    /\ UNCHANGED gLogger
    /\ UNCHANGED <<vars, regVars, monVars, sizeVars>>

NextGorm ==
    \/ \E cfg \in GormConfigs, console \in BOOLEAN :
           NewGormLogger(cfg, console)
    \/ \E level \in LogLevels : LogMode(level)
    \/ Leveled("info", LevelInfo)
    \/ Leveled("warn", LevelWarn)
    \/ Leveled("error", LevelError)
    \/ \E err \in TraceErrs, elapsed \in 0..MaxElapsedUnits :
           Trace(err, elapsed)

InitGorm ==
    /\ Init
    /\ config = [TimeRotation |-> "daily", MaxSize |-> 0]

SpecGorm == InitGorm /\ [][NextGorm]_gormVars
\* ------------------------------------- int64 arithmetic of the size check
\* x * c on limbs from limb i on with carry in, keeping Len(x) limbs: the
\* carry out of the last limb is dropped, as Go's int64 multiplication wraps
RECURSIVE MulFrom(_, _, _, _)
MulFrom(x, c, i, carry) ==
    IF i > Len(x) THEN <<>>
    ELSE LET v == x[i] * c + carry
         IN  <<v % Base>> \o MulFrom(x, c, i + 1, v \div Base)

Mul64(x, c) == MulFrom(x, c, 1, 0)

\* sign and order of int64 values
IsNegative64(x) == x[4] >= Base \div 2
IsPositive64(x) == ~IsNegative64(x) /\ x # Zero64

RECURSIVE LessFrom(_, _, _)
LessFrom(x, y, i) ==
    IF i = 0 THEN FALSE
    ELSE IF x[i] # y[i] THEN x[i] < y[i]
    ELSE LessFrom(x, y, i - 1)

Less64(x, y) ==
    IF IsNegative64(x) # IsNegative64(y) THEN IsNegative64(x)
    ELSE LessFrom(x, y, 4)

\* maxSizeBytes := rw.config.MaxSize * 1024 * 1024
maxSizeBytes64(MaxSize) == Mul64(Mul64(MaxSize, 1024), 1024)

\* the int64 values taken for MaxSize and currentSize
MaxSize64s ==
    {<<a, b, c, d>> : a \in {0, 1, Base - 1}, b \in {0, Base - 1},
                      c \in {0, 2047, 2048, 4096, Base - 1},
                      d \in {0, Base \div 2 - 1, Base - 1}}
CurrentSize64s == {Zero64, <<0, 16, 0, 0>>, <<0, 0, 0, Base \div 4>>}

\* a writer with the given MaxSize whose currentSize has reached size
SizeConfigured(MaxSize, size) ==
    /\ sizeCheck.state = "unset"
    /\ maxSize64' = MaxSize
    /\ currentSize64' = size
    /\ sizeCheck' = [sizeCheck EXCEPT !.state = "ready"]
    /\ UNCHANGED <<vars, regVars, monVars, gormVars>>

\* the size check of checkRotate:
\* maxSizeBytes > 0 && rw.currentSize >= maxSizeBytes
SizeCheck ==
    /\ sizeCheck.state = "ready"
    /\ LET threshold == maxSizeBytes64(maxSize64)
       IN  sizeCheck' = [state |-> "done", maxSizeBytes |-> threshold,
                         reopen |-> /\ IsPositive64(threshold)
                                    /\ ~Less64(currentSize64, threshold)]
    /\ UNCHANGED <<maxSize64, currentSize64>>
    /\ UNCHANGED <<vars, regVars, monVars, gormVars>>

NextSize ==
    \/ \E MaxSize \in MaxSize64s, size \in CurrentSize64s :
           SizeConfigured(MaxSize, size)
    \/ SizeCheck

InitSize ==
    /\ Init
    /\ config = [TimeRotation |-> "daily", MaxSize |-> 0]

SpecSize == InitSize /\ [][NextSize]_sizeVars

\* ------------------------------------------------------------ properties
\* the Write body of goroutine p runs in this step
WriteReturns(p) == pc[p] = "Write" /\ pc'[p] = "idle"
CloseReturns(p) == pc[p] = "Close" /\ pc'[p] = "idle"

\* this step appends exactly the record of p to the file at path
LandsIn(path, p) ==
    /\ path \in DOMAIN fs'
    /\ fs'[path] = (IF path \in DOMAIN fs THEN fs[path] ELSE <<>>) \o Payload(p)

\* the first instant of the time slot a file name carries
SlotStart(name) ==
    LET tok == name[2]
    IN  Date(tok[1], IF Len(tok) >= 2 THEN tok[2] ELSE 0,
             IF Len(tok) >= 3 THEN tok[3] ELSE 0)

\* what GetLogFilePath would return in the state f
currentPath(f) == IF ~f.nil THEN f.name ELSE <<>>

\* C1: every successful write lands in the file named after the time slot of
\* an instant of that write call (the clock runs from clock to clock' during
\* the call), so writes of different slots never share a file.
C1_WriteLandsInSlotFile ==
    [][\A p \in Procs :
        (WriteReturns(p) /\ last'.err = "nil") =>
            \E t \in clock..clock' : LandsIn(getCurrentFilePath(config, t), p)
      ]_vars

\* C2: a successful write issued after the start of the slot that follows
\* the open file's slot leaves currentPath() at the path of an instant of
\* that write call.
C2_SwitchOnNextWrite ==
    [][\A p \in Procs :
        (/\ WriteReturns(p)
         /\ IsOpen(file)
         /\ clock > getRotationTimeBoundary(config, SlotStart(file.name))
         /\ last'.err = "nil") =>
            \E t \in clock..clock' :
                currentPath(file') = getCurrentFilePath(config, t)
      ]_vars

\* C3: with size rotation enabled and the time boundary not passed, a write
\* attempts exactly one reopen when currentSize >= maxSizeBytes at the
\* moment of the write and none when currentSize < maxSizeBytes.
C3_SizeTrigger ==
    [][\A p \in Procs :
        (/\ WriteReturns(p)
         /\ config.MaxSize > 0
         /\ clock <= lastRotateTime) =>
            /\ last'.opens =
                   (IF currentSize >= config.MaxSize * 1024 * 1024
                    THEN 1 ELSE 0)
            /\ last'.trigger = (IF last'.opens = 1 THEN "size" ELSE "none")
      ]_vars

C3_Witness ==
    /\ last.op = "Write"
    /\ last.trigger = "size"
    /\ last.opens = 1
    /\ last.err = "nil"

\* number of places in a file's content where the whole record of p stands
Records(content, p) ==
    Cardinality({i \in 1..Len(content) :
        /\ i + RecLen - 1 <= Len(content)
        /\ SubSeq(content, i, i + RecLen - 1) = Payload(p)})

RECURSIVE SumOver(_, _, _)
SumOver(disk, paths, p) ==
    IF paths = {} THEN 0
    ELSE LET path == CHOOSE x \in paths : TRUE
         IN  Records(disk[path], p) + SumOver(disk, paths \ {path}, p)

RecordsOnDisk(p) == SumOver(fs, DOMAIN fs, p)

RECURSIVE ChunksOver(_, _)
ChunksOver(disk, paths) ==
    IF paths = {} THEN 0
    ELSE LET path == CHOOSE x \in paths : TRUE
         IN  Len(disk[path]) + ChunksOver(disk, paths \ {path})

\* C4: as long as no write has returned an error, the files hold exactly one
\* whole record per write call of each producer and nothing else: no record
\* is lost, duplicated or cut, whatever rotations happened in between.
C4_AllMarkersPresent ==
    ~writeErr =>
        /\ \A p \in Procs : RecordsOnDisk(p) = done[p]
        /\ ChunksOver(fs, DOMAIN fs) = RecLen * Calls(done)

C4_Witness ==
    /\ ~writeErr
    /\ Calls(done) = MaxWrites
    /\ \E p, q \in Procs : p # q /\ done[p] > 0 /\ done[q] > 0
    /\ Cardinality(DOMAIN fs) >= 2

\* C5: a goroutine is inside a method body only while it holds the mutex, so
\* no two goroutines are inside method bodies at the same time.
C5_MutualExclusion ==
    /\ \A p \in Procs : pc[p] # "idle" => mu = p
    /\ \A p, q \in Procs : (pc[p] # "idle" /\ pc[q] # "idle") => p = q

C5_Witness ==
    \E p, q \in Procs : pc[p] = "Write" /\ pc[q] = "idle" /\ mu = p

\* C6: a Close that directly follows a Close returns nil and changes nothing.
C6_CloseIdempotent ==
    [][\A p \in Procs :
        (CloseReturns(p) /\ last.again) =>
            /\ last'.err = "nil"
            /\ UNCHANGED <<file, currentSize, lastRotateTime, fs, nOpen>>
      ]_vars

C6_Witness ==
    last.op = "Close" /\ last.again /\ last.err = "nil"

\* C7: after a successful Rotate the writer holds an open handle to the path
\* of the instant of the call and owns no other descriptor: the previous
\* file was closed first.
C7_ForceRotate ==
    (last.op = "Rotate" /\ last.err = "nil") =>
        /\ IsOpen(file)
        /\ file.name = getCurrentFilePath(config, clock)
        /\ nOpen = 1

\* a forced rotation with no threshold crossed, of a writer that held a file
C7_Witness ==
    /\ last.op = "Rotate"
    /\ last.err = "nil"
    /\ clock <= lastRotateTime
    /\ currentSize < ChunkBytes
    /\ IsOpen(file)

\* C8: GetLogFilePath returns the open file's path when a file is open and
\* the empty string whenever no file is open.
C8_CurrentPath ==
    last.op = "GetLogFilePath" =>
        last.path = (IF IsOpen(file) THEN file.name ELSE <<>>)

\* C9: a Write or Rotate whose open attempt fails returns that error, a Write
\* reports 0 bytes, and rw.file is nil afterwards.
C9_RotationFailure ==
    (last.op \in {"Write", "Rotate"} /\ last.opens = 1
        /\ last.err \in {"mkdir", "open"}) =>
        /\ last.n = 0
        /\ file.nil

\* C10: the write that follows a failed rotation (the handle was closed and
\* no file was opened) attempts the open again.
C10_RetryAfterFailure ==
    [][\A p \in Procs :
        (WriteReturns(p) /\ ~file.nil /\ file.closed) => last'.opens = 1
      ]_vars

\* C11: NewRotateWriter opens the file before it returns.  When the open
\* fails it returns the mkdir or open error and no writer: nothing is open
\* and no file was created.  When it succeeds the writer exists and holds the
\* one open handle, to the existing file named after the instant at which
\* the call began.
C11_Construction ==
    [][(rw = "absent" /\ last'.op = "NewRotateWriter") =>
        IF last'.err = "nil"
        THEN /\ rw' = "live"
             /\ IsOpen(file')
             /\ file'.name = getCurrentFilePath(config, clock)
             /\ file'.name \in DOMAIN fs'
             /\ nOpen' = 1
        ELSE /\ last'.err \in {"mkdir", "open"}
             /\ rw' = "absent"
             /\ file'.nil
             /\ nOpen' = 0
             /\ fs' = fs
      ]_vars

\* a construction that has just failed
C11_Witness ==
    /\ last.op = "NewRotateWriter"
    /\ last.err \in {"mkdir", "open"}
    /\ rw = "absent"

\* C12: a write that takes no rotation and whose append fails after
\* committing k bytes returns the error with k, and currentSize has grown by
\* exactly k.
C12_PartialWriteCounted ==
    [][\A p \in Procs :
        (WriteReturns(p) /\ last'.opens = 0 /\ last'.err = "write") =>
            /\ last'.n = FileSize(fs'[file.name]) - FileSize(fs[file.name])
            /\ currentSize' = currentSize + last'.n
      ]_vars

\* C13: whenever a handle is open, currentSize is the length in bytes of the
\* open file.
C13_SizeIsFileLength ==
    IsOpen(file) => currentSize = FileSize(fs[file.name])

\* C14: the writer owns at most one open descriptor in every state, exactly
\* one while rw.file is an open handle and none otherwise: a rotation has
\* closed the previous file when the next one is open.  A successful
\* construction leaves a handle open, and an open handle stops being open
\* only through Close or through a rotation whose open fails.
C14_OneHandle ==
    [][/\ nOpen' = (IF IsOpen(file') THEN 1 ELSE 0)
       /\ (rw = "absent" /\ rw' = "live") => IsOpen(file')
       /\ (IsOpen(file) /\ ~IsOpen(file')) =>
              \/ last'.op = "Close"
              \/ last'.opens = 1 /\ last'.err \in {"mkdir", "open"}
      ]_vars

\* a write has just rotated on time from one open file to the next
C14_Witness ==
    /\ last.op = "Write"
    /\ last.trigger = "time"
    /\ last.opens = 1
    /\ last.err = "nil"
    /\ nOpen = 1
    /\ Cardinality(DOMAIN fs) >= 2

\* C15: a Sync called while no file is open returns nil; called while a file
\* is open it returns what the file's sync returned.  (Sync changes no state
\* of the writer, so the state after the call is the state it was called in.)
C15_SyncNoFile ==
    last.op = "Sync" =>
        IF IsOpen(file) THEN last.err \in {"nil", "sync"}
        ELSE last.err = "nil"

\* C16: a Close whose release of the handle fails returns that error, and
\* like every Close it leaves rw.file nil with no descriptor owned; a Close
\* called with rw.file nil, as every Close after it is until a file is
\* opened again, returns nil.
C16_CloseFailure ==
    [][\A p \in Procs :
        CloseReturns(p) =>
            /\ file'.nil
            /\ nOpen' = 0
            /\ last'.err # "nil" => ~file.nil
            /\ file.nil => last'.err = "nil"
      ]_vars

\* a Close has just failed on an open file
C16_Witness ==
    /\ last.op = "Close"
    /\ last.err = "close"
    /\ file.nil
    /\ nOpen = 0

\* the configured Filename taken as a path of its own, with no time token
BasePath == <<filePrefix, <<>>, fileExt>>

\* the name that carries the date of instant t and nothing finer
DailyPath(t) == <<filePrefix, <<Day(t)>>, fileExt>>

\* C17 as stated: with no time granularity (TimeRotation empty) the file
\* open after a successful construction, size-triggered reopen or forced
\* reopen is the bare configured path, with no time token.
C17_NoneBarePath ==
    (/\ config.TimeRotation = ""
     /\ last.trigger \in {"new", "size", "force"}
     /\ last.err = "nil") =>
        IsOpen(file) /\ file.name = BasePath

\* C17: with no time granularity (TimeRotation empty) the file open after a
\* successful construction, size-triggered reopen or forced reopen still
\* carries the date token: it is the daily path of an instant of that call.
C17_NoneDailyPath ==
    [][(/\ config.TimeRotation = ""
        /\ last'.trigger \in {"new", "size", "force"}
        /\ last'.err = "nil") =>
            /\ IsOpen(file')
            /\ \E t \in clock..clock' : file'.name = DailyPath(t)
      ]_vars

\* a size-triggered reopen under the empty TimeRotation
C17_Witness ==
    /\ config.TimeRotation = ""
    /\ last.op = "Write"
    /\ last.trigger = "size"
    /\ last.err = "nil"
    /\ IsOpen(file)

\* C18: with TimeRotation empty, or any value other than hourly and minutely,
\* every file the writer has opened carries the date token of an instant of
\* the run and nothing finer, and the boundary is the midnight that follows
\* an instant of the run.
C18_DefaultIsDaily ==
    (rw = "live" /\ config.TimeRotation \notin {"hourly", "minutely"}) =>
        /\ ~file.nil => \E t \in StartTick..clock : file.name = DailyPath(t)
        /\ \A path \in DOMAIN fs :
              \E t \in StartTick..clock : path = DailyPath(t)
        /\ \E t \in StartTick..clock :
              lastRotateTime = Date(Day(t) + 1, 0, 0)

\* under the empty TimeRotation a write after midnight has moved to the
\* next day's file and set the boundary to the midnight after it
C18_Witness ==
    /\ config.TimeRotation = ""
    /\ last.op = "Write"
    /\ last.trigger = "time"
    /\ last.err = "nil"
    /\ file.name = DailyPath(clock)
    /\ lastRotateTime = Date(Day(clock) + 1, 0, 0)
    /\ Cardinality(DOMAIN fs) = 2

\* the token of instant t as the three granularities define it: the date,
\* the date and hour, the date, hour and minute
Token(gran, t) ==
    IF gran = "daily" THEN <<Day(t)>>
    ELSE IF gran = "hourly" THEN <<Day(t), Hour(t)>>
    ELSE <<Day(t), Hour(t), Minute(t)>>

TokenPath(gran, t) == <<filePrefix, Token(gran, t), fileExt>>

\* C19: under daily, hourly and minutely rotation every file a call creates
\* is created under prefix, token, extension with the token of an instant of
\* that call, and after a successful write the record is in the open file,
\* which exists under such a name.
C19_PathFormat ==
    [][config.TimeRotation \in {"daily", "hourly", "minutely"} =>
        /\ \A path \in DOMAIN fs' \ DOMAIN fs :
              \E t \in clock..clock' : path = TokenPath(config.TimeRotation, t)
        /\ \A p \in Procs :
              (WriteReturns(p) /\ last'.err = "nil") =>
                  /\ IsOpen(file')
                  /\ LandsIn(file'.name, p)
                  /\ \E t \in StartTick..clock' :
                        file'.name = TokenPath(config.TimeRotation, t)
      ]_vars

\* the first write of a minutely writer has landed in the file named after
\* the minute of the write
C19_Witness ==
    /\ config.TimeRotation = "minutely"
    /\ last.op = "Write"
    /\ last.err = "nil"
    /\ Calls(done) = 1
    /\ IsOpen(file)
    /\ file.name = <<filePrefix, <<Day(clock), Hour(clock), Minute(clock)>>,
                     fileExt>>
    /\ Len(fs[file.name]) = RecLen

\* g is at a read, or at a write, of the GlobalLoggers map
AtMapRead(g) ==
    \/ gpc[g] \in {"GetLogger", "WithHLog"}
    \/ gpc[g] = "defaults" /\ hLog[g] = NilLogger
AtMapWrite(g) == gpc[g] = "SetLogger"
HoldsMutex(g) == loggersMutex.w = g \/ g \in loggersMutex.r

\* C20: a goroutine that is at a read or a write of GlobalLoggers holds
\* loggersMutex, so no goroutine reads the map without the mutex while
\* another is inside SetLogger's assignment.
C20_RegistryGuarded ==
    /\ \A g \in Procs : (AtMapRead(g) \/ AtMapWrite(g)) => HoldsMutex(g)
    /\ \A g, h \in Procs :
          (AtMapWrite(g) /\ AtMapRead(h) /\ g # h) => HoldsMutex(h)

\* C21: once Run has been called after wg.Add(1) and one Stop has been made
\* on the running monitor, whatever the goroutine was doing, the goroutine
\* eventually has stopped the ticker, exited and called wg.Done, and the
\* caller's wg.Wait() has returned.
C21_StopTerminates ==
    (cpc = "waiting" /\ stops = 1 /\ monitor.quitCh.closed) ~>
        (/\ mpc = "exited"
         /\ ~ticker.on
         /\ wg = 0
         /\ cpc = "returned"
         /\ panicked = "")

\* after one Stop the goroutine has exited and Wait has returned
C21_Witness ==
    /\ cpc = "returned"
    /\ mpc = "exited"
    /\ stops = 1
    /\ warns > 0
    /\ ~ticker.on

\* C22: with LogLevel = Error and IgnoreRecordNotFoundError = false, a Trace
\* called with a non-nil error, a SQL error or ErrRecordNotFound, hands
\* exactly one error record to the underlying logger.
C22_TraceErrorLogged ==
    (/\ gLast.op = "Trace"
     /\ gLast.err # "nil"
     /\ gLogger.LogLevel = LevelError
     /\ ~gLogger.IgnoreRecordNotFoundError) =>
        /\ Len(gLast.emitted) = 1
        /\ gLast.emitted[1].level = "error"

\* C23: with LogLevel = Warn, a Trace without error hands one slow-SQL
\* warning to the underlying logger when the elapsed time exceeds
\* SlowThreshold and nothing when it is below it.
C23_TraceSlowLogged ==
    (/\ gLast.op = "Trace"
     /\ gLast.err = "nil"
     /\ gLogger.LogLevel = LevelWarn) =>
        /\ gLast.elapsed > gLogger.SlowThreshold =>
               /\ Len(gLast.emitted) = 1
               /\ gLast.emitted[1].level = "warn"
               /\ gLast.emitted[1].msg = "SLOW SQL"
        /\ gLast.elapsed < gLogger.SlowThreshold => gLast.emitted = <<>>

\* C24: the registry changes only when a SetLogger, called directly or by a
\* successful InitLogger / InitRotatingLogger, completes, and then exactly
\* the given name maps to the given logger, replacing any earlier one; a
\* failed initialisation changes nothing; and GetLogger of a registered
\* name returns what the registry holds under it.  So a lookup returns the
\* logger most recently registered under its name.
C24_LatestRegistered ==
    [][/\ \A g \in Procs :
            (gpc[g] = "SetLogger" /\ gpc'[g] = "idle") =>
                /\ DOMAIN GlobalLoggers' =
                       DOMAIN GlobalLoggers \cup {garg[g].loggerType}
                /\ GlobalLoggers'[garg[g].loggerType] = garg[g].logger
                /\ \A k \in DOMAIN GlobalLoggers \ {garg[g].loggerType} :
                       GlobalLoggers'[k] = GlobalLoggers[k]
       /\ (\A g \in Procs : ~(gpc[g] = "SetLogger" /\ gpc'[g] = "idle")) =>
              GlobalLoggers' = GlobalLoggers
       /\ \A g \in Procs :
            (/\ gpc[g] = "GetLogger" /\ gpc'[g] = "idle"
             /\ garg[g].loggerType \in DOMAIN GlobalLoggers) =>
                got'[g] = GlobalLoggers[garg[g].loggerType]
      ]_regVars

\* only "default" is registered, now with zapB; one goroutine's lookup
\* returned zapA before the name was registered again, the other's zapB after
C24_Witness ==
    /\ DOMAIN GlobalLoggers = {"default"}
    /\ GlobalLoggers["default"] = "zapB"
    /\ \E g, h \in Procs :
          /\ got[g] = "zapA" /\ got[h] = "zapB"
          /\ gpc[g] = "idle" /\ gpc[h] = "idle"

\* a file was opened successfully in this step: by construction, by a write
\* that rotated on time or on size, or by Rotate
OpensFile ==
    /\ last'.op \in {"NewRotateWriter", "Write", "Rotate"}
    /\ last'.opens = 1
    /\ last'.err \in {"nil", "write"}
    /\ IsOpen(file')

\* C25: a write whose time check performs no rotation evaluates the size
\* check, so with currentSize >= maxSizeBytes > 0 it reopens on size.
C25_SizeCheckedUnlessTimeRotated ==
    [][\A p \in Procs :
        (/\ WriteReturns(p)
         /\ last'.trigger # "time"
         /\ maxSizeBytes(config) > 0
         /\ currentSize >= maxSizeBytes(config)) =>
            /\ last'.trigger = "size"
            /\ last'.opens = 1
      ]_vars

\* C26: a write that finds the boundary passed while the computed path is
\* the open file's path does not reopen the file and advances
\* lastRotateTime to the start of the unit after an instant of the call.
C26_BoundaryAdvancedWithoutReopen ==
    [][\A p \in Procs :
        (/\ WriteReturns(p)
         /\ IsOpen(file)
         /\ last'.trigger = "passed") =>
            /\ last'.opens = 0
            /\ file' = file
            /\ \E t \in clock..clock' :
                   lastRotateTime' = getRotationTimeBoundary(config, t)
      ]_vars

\* C27: every successful open of a file, by construction, time rotation,
\* size rotation or Rotate, leaves lastRotateTime at the start of the unit
\* that follows an instant of that call.
C27_BoundaryRecomputedOnOpen ==
    [][OpensFile =>
        \E t \in clock..clock' :
            lastRotateTime' = getRotationTimeBoundary(config, t)
      ]_vars

\* C28: a write at or past lastRotateTime takes the time branch; a write
\* exactly at lastRotateTime already rotates.
C28_RotatesAtBoundary ==
    [][\A p \in Procs :
        (WriteReturns(p) /\ clock >= lastRotateTime) =>
            /\ last'.trigger \in {"time", "passed"}
            /\ (clock = lastRotateTime /\ IsOpen(file)) =>
                   (last'.trigger = "time" /\ last'.opens = 1)
      ]_vars

\* C29: after a construction or a time rotation that leaves a handle open,
\* lastRotateTime is the start of the unit immediately following the slot
\* in the open file's name, also when the clock advances inside the call.
C29_NameAndBoundaryAgree ==
    [][(/\ OpensFile
        /\ last'.trigger \in {"new", "time"}) =>
            lastRotateTime' =
                getRotationTimeBoundary(config, SlotStart(file'.name))
      ]_vars

\* C30: after Close has returned (rw.file is nil) every write returns an
\* error, appends to no file and opens no file.
C30_ClosedStaysClosed ==
    [][\A p \in Procs :
        (WriteReturns(p) /\ file.nil) =>
            /\ last'.err # "nil"
            /\ last'.opens = 0
            /\ file'.nil
            /\ fs' = fs
            /\ nOpen' = nOpen
      ]_vars

\* the length in bytes the file opened in this step had on disk before the
\* step: 0 when the step created it
LengthBefore == IF file'.name \in DOMAIN fs THEN FileSize(fs[file'.name]) ELSE 0

\* C31: every successful open, by construction, time rotation, size
\* rotation or Rotate, sets currentSize to the length the opened file had on
\* disk (0 for a new file); a write that opened the file then adds the
\* bytes of its successful append.
C31_SizeSeededFromDisk ==
    [][OpensFile =>
        currentSize' =
            LengthBefore + (IF last'.err = "nil" THEN last'.n ELSE 0)
      ]_vars

\* the instant t lies in the time slot the file name carries
InSlotOf(name, t) ==
    /\ SlotStart(name) <= t
    /\ t < getRotationTimeBoundary(config, SlotStart(name))

\* C32: a write that rotates on size while the clock stays in the slot of
\* the open file reopens the very same path, and every path any operation
\* opens or creates is prefix, time token, extension with nothing appended.
C32_SizeRotationSamePath ==
    [][/\ \A p \in Procs :
            (/\ WriteReturns(p)
             /\ last'.trigger = "size"
             /\ OpensFile
             /\ IsOpen(file)
             /\ InSlotOf(file.name, clock')) =>
                file'.name = file.name
       /\ \A path \in DOMAIN fs' \cup (IF file'.nil THEN {} ELSE {file'.name}) :
            /\ Len(path) = 3
            /\ path[1] = filePrefix
            /\ path[3] = fileExt
      ]_vars

\* a write has rotated on size and appended to the one file there is, after
\* the record that filled it
C32_Witness ==
    /\ last.op = "Write"
    /\ last.trigger = "size"
    /\ last.err = "nil"
    /\ IsOpen(file)
    /\ DOMAIN fs = {file.name}
    /\ Len(fs[file.name]) = 2 * RecLen

\* C33: a size rotation inside the slot of the open file leaves currentSize
\* at or above the threshold, and from then on every write in that slot
\* closes and reopens the file again.
C33_SizeRotationRepeats ==
    [][\A p \in Procs :
        (/\ WriteReturns(p)
         /\ IsOpen(file)
         /\ InSlotOf(file.name, clock)
         /\ InSlotOf(file.name, clock')
         /\ maxSizeBytes(config) > 0
         /\ currentSize >= maxSizeBytes(config)) =>
            /\ last'.trigger = "size"
            /\ last'.opens = 1
            /\ OpensFile => currentSize' >= maxSizeBytes(config)
      ]_vars

\* s is an initial part of u
IsPrefix(s, u) == Len(s) <= Len(u) /\ SubSeq(u, 1, Len(s)) = s

\* C34: no step removes a file or changes bytes already in one: every file
\* keeps its content as an initial part of its later content, and a
\* successful write puts its whole record at the end of one file, so the
\* records stay on disk in the order the writes were serialized.
C34_AppendOnly ==
    [][/\ \A path \in DOMAIN fs :
            /\ path \in DOMAIN fs'
            /\ IsPrefix(fs[path], fs'[path])
       /\ \A p \in Procs :
            (WriteReturns(p) /\ last'.err = "nil") =>
                \E path \in DOMAIN fs' : LandsIn(path, p)
      ]_vars

\* a file that already held a record has been reopened by Rotate, the
\* record is still in it, and a second file exists beside it
C34_Witness ==
    /\ last.op = "Rotate"
    /\ last.err = "nil"
    /\ IsOpen(file)
    /\ Len(fs[file.name]) >= RecLen
    /\ Cardinality(DOMAIN fs) >= 2

RotateReturns(p) == pc[p] = "Rotate" /\ pc'[p] = "idle"

\* the content of path before this step, empty when the step created it
Before(path) == IF path \in DOMAIN fs THEN fs[path] ELSE <<>>

Product(MaxSize) == Mul64(Mul64(MaxSize \o <<0, 0>>, 1024), 1024)

\* C36: for every MaxSize > 0 the threshold the size check computes is
\* positive and is the product MaxSize * 1024 * 1024, and the check is
\* enabled; for MaxSize <= 0 it is disabled.
C36_ThresholdIsProduct ==
    sizeCheck.state = "done" =>
        IF IsPositive64(maxSize64)
        THEN /\ IsPositive64(sizeCheck.maxSizeBytes)
             /\ sizeCheck.maxSizeBytes \o <<0, 0>> = Product(maxSize64)
        ELSE ~IsPositive64(sizeCheck.maxSizeBytes) /\ ~sizeCheck.reopen

\* C37: with MaxSize = 0 no write rotates on size, whatever currentSize is:
\* a write reopens only on time, and every other reopen is a Rotate.
C37_ZeroDisablesSizeRotation ==
    [][(config.MaxSize = 0 /\ rw = "live") =>
        /\ \A p \in Procs :
              WriteReturns(p) =>
                  /\ last'.trigger # "size"
                  /\ last'.opens = 1 => last'.trigger = "time"
        /\ (last'.opens = 1 /\ last'.op # "Write") => last'.op = "Rotate"
      ]_vars

\* with MaxSize = 0 a second record has been appended to a file that
\* already held a whole record, without any reopen
C37_Witness ==
    /\ config.MaxSize = 0
    /\ last.op = "Write"
    /\ last.err = "nil"
    /\ last.opens = 0
    /\ IsOpen(file)
    /\ currentSize >= 2 * RecLen * ChunkBytes

\* C38: once a Stop after Run has closed the quit channel, a further Stop
\* neither reaches the send on it nor the close of it, and nothing panics.
C38_SecondStopHarmless ==
    /\ panicked = ""
    /\ monitor.quitCh.closed => cpc \notin {"sending", "closing"}

\* C39: the path is determined by the instant and the configuration alone:
\* computed for the same instant before and after any step it is the same,
\* whatever the step did to currentSize, the handle and lastRotateTime, and
\* the path a step opens is the one computed for an instant of that step.
C39_PathDeterminism ==
    [][/\ \A t \in 0..MaxTime :
            getCurrentFilePath(config', t) = getCurrentFilePath(config, t)
       /\ OpensFile =>
            \E t \in clock..clock' :
                file'.name = getCurrentFilePath(config, t)
      ]_vars

\* Rotate has computed the path again in the slot of the only file, which
\* already holds bytes, and has reopened that file
C39_Witness ==
    /\ last.op = "Rotate"
    /\ last.err = "nil"
    /\ IsOpen(file)
    /\ currentSize > 0
    /\ DOMAIN fs = {file.name}
====
